---- MODULE Spec2Model ----
(***************************************************************************)
(* A model of commit-ai (src/src/GitCommitMessageGenerator.ts, lines 1-267 *)
(* and src/src/cli.ts): the curation of the staged diff, the extraction of *)
(* commit messages from the backend's response, the retry of the           *)
(* generation request and the commit.                                      *)
(*                                                                         *)
(* Text.  A JavaScript string is modelled as a sequence of tokens.  Every  *)
(* token stands for a fixed run of characters: one character, or one of    *)
(* the words "title", "body", "null", FENCE (the three backquotes that     *)
(* open or close a fenced block; a TLA+ string holds no backquote, so the  *)
(* token is written with three quotes) and FENCEJSON (FENCE and the tag    *)
(* json).  The regular expressions and JSON.parse of the                   *)
(* source are evaluated on these sequences character class by character    *)
(* class; the word tokens hold no digit, dot, quote, backslash or white    *)
(* space, so that a match of the source on the characters is a match of    *)
(* the model on the tokens.  The texts the specifications draw never put   *)
(* a backslash right before a word token.                                  *)
(***************************************************************************)
EXTENDS Integers, Sequences, FiniteSets, TLC

NL == "\n"
SP == " "
QUOTE == "\""
BSL == "\\"
DOT == "."
FENCE == "'''"
FENCEJSON == "'''json"

Digits == {"1", "2"}
WhiteSpace == {SP, NL}
WordTokens == {"title", "body", "null", FENCE, FENCEJSON}

IsDigit(c) == c \in Digits
IsSpace(c) == c \in WhiteSpace

(***************************************************************************)
(* String.prototype.trim, split("\n") and join("\n").                      *)
(***************************************************************************)
RECURSIVE TrimStart(_)
TrimStart(s) ==
  IF s # <<>> /\ IsSpace(Head(s)) THEN TrimStart(Tail(s)) ELSE s

RECURSIVE TrimEnd(_)
TrimEnd(s) ==
  IF s # <<>> /\ IsSpace(s[Len(s)]) THEN TrimEnd(SubSeq(s, 1, Len(s) - 1)) ELSE s

Trim(s) == TrimEnd(TrimStart(s))

\* The first index >= i of t that holds a token of set S, Len(t) + 1 if none.
RECURSIVE IndexOfIn(_, _, _)
IndexOfIn(t, i, S) ==
  IF i > Len(t) THEN Len(t) + 1
  ELSE IF t[i] \in S THEN i
  ELSE IndexOfIn(t, i + 1, S)

\* The first index >= i of t that holds no token of set S, Len(t) + 1 if none.
RECURSIVE SkipIn(_, _, _)
SkipIn(t, i, S) ==
  IF i > Len(t) THEN Len(t) + 1
  ELSE IF t[i] \notin S THEN i
  ELSE SkipIn(t, i + 1, S)

RECURSIVE SplitLines(_)
SplitLines(t) ==
  LET e == IndexOfIn(t, 1, {NL})
  IN IF e > Len(t) THEN <<t>>
     ELSE <<SubSeq(t, 1, e - 1)>> \o SplitLines(SubSeq(t, e + 1, Len(t)))

RECURSIVE JoinLines(_)
JoinLines(ls) ==
  IF ls = <<>> THEN <<>>
  ELSE IF Len(ls) = 1 THEN ls[1]
  ELSE ls[1] \o <<NL>> \o JoinLines(Tail(ls))

(***************************************************************************)
(* response.match(/FENCEjson\s*([\s\S]*?)FENCE/): the leftmost FENCEJSON   *)
(* that some FENCE follows, white space skipped greedily, and the lazy     *)
(* group up to the first FENCE after it (the three backquotes of a later   *)
(* FENCEJSON end the group as well).                                       *)
(***************************************************************************)
FenceMatch(response) ==
  LET open == IndexOfIn(response, 1, {FENCEJSON})
      from == SkipIn(response, open + 1, WhiteSpace)
      close == IndexOfIn(response, from, {FENCE, FENCEJSON})
  IN IF open > Len(response) \/ close > Len(response)
     THEN [found |-> FALSE, group1 |-> <<>>]
     ELSE [found |-> TRUE, group1 |-> SubSeq(response, from, close - 1)]

(***************************************************************************)
(* JSON.parse.  A decoded value is a record [k, s, items]: k is its kind,  *)
(* s the text of a string, items the elements of an array or the members   *)
(* [key, val] of an object in text order.                                  *)
(***************************************************************************)
JNull == [k |-> "null", s |-> <<>>, items |-> <<>>]
JNum == [k |-> "num", s |-> <<>>, items |-> <<>>]
JStr(s) == [k |-> "str", s |-> s, items |-> <<>>]
JArr(items) == [k |-> "arr", s |-> <<>>, items |-> items]
JObj(members) == [k |-> "obj", s |-> <<>>, items |-> members]

ParseFail == [ok |-> FALSE, v |-> JNull, i |-> 0]
ParseOk(v, i) == [ok |-> TRUE, v |-> v, i |-> i]

\* The characters of a string literal from index j on, acc decoded so far.
RECURSIVE JsonStringBody(_, _, _)
JsonStringBody(t, j, acc) ==
  IF j > Len(t) THEN ParseFail
  ELSE IF t[j] = QUOTE THEN ParseOk(JStr(acc), j + 1)
  ELSE IF t[j] = NL THEN ParseFail
  ELSE IF t[j] = BSL
    THEN IF j + 1 > Len(t) THEN ParseFail
         ELSE IF t[j + 1] = QUOTE THEN JsonStringBody(t, j + 2, Append(acc, QUOTE))
         ELSE IF t[j + 1] = BSL THEN JsonStringBody(t, j + 2, Append(acc, BSL))
         ELSE IF t[j + 1] = "n" THEN JsonStringBody(t, j + 2, Append(acc, NL))
         ELSE ParseFail
  ELSE JsonStringBody(t, j + 1, Append(acc, t[j]))

\* A number: digits, then optionally a dot and digits.
JsonNumber(t, i) ==
  LET e == SkipIn(t, i, Digits)
  IN IF e <= Len(t) /\ t[e] = DOT
     THEN LET f == SkipIn(t, e + 1, Digits)
          IN IF f = e + 1 THEN ParseFail ELSE ParseOk(JNum, f)
     ELSE ParseOk(JNum, e)

RECURSIVE JsonValue(_, _), JsonElements(_, _, _), JsonMembers(_, _, _)
\* A value at index i, white space before it skipped.
JsonValue(t, i0) ==
  LET i == SkipIn(t, i0, WhiteSpace)
  IN IF i > Len(t) THEN ParseFail
     ELSE IF t[i] = QUOTE THEN JsonStringBody(t, i + 1, <<>>)
     ELSE IF IsDigit(t[i]) THEN JsonNumber(t, i)
     ELSE IF t[i] = "null" THEN ParseOk(JNull, i + 1)
     ELSE IF t[i] = "["
       THEN LET j == SkipIn(t, i + 1, WhiteSpace)
            IN IF j <= Len(t) /\ t[j] = "]" THEN ParseOk(JArr(<<>>), j + 1)
               ELSE JsonElements(t, i + 1, <<>>)
     ELSE IF t[i] = "{"
       THEN LET j == SkipIn(t, i + 1, WhiteSpace)
            IN IF j <= Len(t) /\ t[j] = "}" THEN ParseOk(JObj(<<>>), j + 1)
               ELSE JsonMembers(t, i + 1, <<>>)
     ELSE ParseFail

\* The elements of an array from index i on: value ("," value)* "]".
JsonElements(t, i, acc) ==
  LET r == JsonValue(t, i)
      j == SkipIn(t, r.i, WhiteSpace)
  IN IF ~r.ok \/ j > Len(t) THEN ParseFail
     ELSE IF t[j] = "]" THEN ParseOk(JArr(Append(acc, r.v)), j + 1)
     ELSE IF t[j] = "," THEN JsonElements(t, j + 1, Append(acc, r.v))
     ELSE ParseFail

\* The members of an object from index i on: string ":" value ("," ...)* "}".
JsonMembers(t, i0, acc) ==
  LET i == SkipIn(t, i0, WhiteSpace)
      key == IF i <= Len(t) /\ t[i] = QUOTE THEN JsonStringBody(t, i + 1, <<>>)
             ELSE ParseFail
      c == SkipIn(t, key.i, WhiteSpace)
      r == IF key.ok /\ c <= Len(t) /\ t[c] = ":" THEN JsonValue(t, c + 1)
           ELSE ParseFail
      j == SkipIn(t, r.i, WhiteSpace)
      all == Append(acc, [key |-> key.v.s, val |-> r.v])
  IN IF ~r.ok \/ j > Len(t) THEN ParseFail
     ELSE IF t[j] = "}" THEN ParseOk(JObj(all), j + 1)
     ELSE IF t[j] = "," THEN JsonMembers(t, j + 1, all)
     ELSE ParseFail

\* JSON.parse(text): one value with white space around it, or a SyntaxError.
JsonParse(text) ==
  LET r == JsonValue(text, 1)
  IN IF r.ok /\ SkipIn(text, r.i, WhiteSpace) > Len(text)
     THEN [ok |-> TRUE, v |-> r.v]
     ELSE [ok |-> FALSE, v |-> JNull]

(***************************************************************************)
(* msg.title and msg.body of a decoded element: the value of the last      *)
(* member with that key; undefined (found = FALSE) when the element is no  *)
(* object or has no such member.                                           *)
(***************************************************************************)
RECURSIVE Property(_, _)
Property(msg, key) ==
  IF msg.k # "obj" \/ msg.items = <<>> THEN [found |-> FALSE, v |-> JNull]
  ELSE LET last == msg.items[Len(msg.items)]
       IN IF last.key = key THEN [found |-> TRUE, v |-> last.val]
          ELSE Property(JObj(SubSeq(msg.items, 1, Len(msg.items) - 1)), key)

\* msg.title.trim() and msg.body.trim() evaluate only on two strings: on
\* undefined, null, a number, an array or an object they throw a TypeError.
Trimmable(msg) ==
  /\ Property(msg, <<"title">>).found
  /\ Property(msg, <<"title">>).v.k = "str"
  /\ Property(msg, <<"body">>).found
  /\ Property(msg, <<"body">>).v.k = "str"

CommitMessage(title, body) == [title |-> title, body |-> body]

\* messages.map((msg) => ({title: msg.title.trim(), body: msg.body.trim()}))
MapMessages(items) ==
  [n \in 1..Len(items) |->
     CommitMessage(Trim(Property(items[n], <<"title">>).v.s),
                   Trim(Property(items[n], <<"body">>).v.s))]

(***************************************************************************)
(* The try block of parseCommitMessages: what it returns, or what it       *)
(* throws (thrown # "none").                                               *)
(***************************************************************************)
TryJson(response) ==
  LET jsonMatch == FenceMatch(response)
      jsonString == IF jsonMatch.found THEN jsonMatch.group1 ELSE response
      messages == JsonParse(jsonString)
  IN IF ~messages.ok THEN [thrown |-> "SyntaxError", messages |-> <<>>]
     ELSE IF messages.v.k # "arr" THEN [thrown |-> "Error", messages |-> <<>>]
     ELSE IF \E n \in 1..Len(messages.v.items) : ~Trimmable(messages.v.items[n])
       THEN [thrown |-> "TypeError", messages |-> <<>>]
     ELSE [thrown |-> "none", messages |-> MapMessages(messages.v.items)]

(***************************************************************************)
(* parseNumberedList: the matches of                                       *)
(*   /(\d+)\.\s*(.+)\n([\s\S]*?)(?=\n\d+\.|$)/g                            *)
(* from lastIndex on.  The expression has no m flag: $ is the end of the   *)
(* text and a match may start anywhere in a line.                          *)
(***************************************************************************)
\* \d+\. at index s: the digits from s on, then a dot.
DigitsDotAt(t, s) ==
  /\ s <= Len(t)
  /\ IsDigit(t[s])
  /\ LET e == SkipIn(t, s, Digits) IN e <= Len(t) /\ t[e] = DOT

\* \s*(.+)\n from index w on: \s* gives back white space from its longest
\* run until .+ holds at least one token and a line break follows it.
RECURSIVE TitleFrom(_, _, _)
TitleFrom(t, w, q) ==
  LET e == IndexOfIn(t, q, {NL})
  IN IF e > q /\ e <= Len(t) THEN [ok |-> TRUE, from |-> q, eol |-> e]
     ELSE IF q > w THEN TitleFrom(t, w, q - 1)
     ELSE [ok |-> FALSE, from |-> 0, eol |-> 0]

\* ([\s\S]*?)(?=\n\d+\.|$) from index p on: the first index where a line
\* break and \d+\. follow, or the end of the text.
RECURSIVE BodyEnd(_, _)
BodyEnd(t, p) ==
  IF p > Len(t) THEN p
  ELSE IF t[p] = NL /\ DigitsDotAt(t, p + 1) THEN p
  ELSE BodyEnd(t, p + 1)

\* The match that starts at index s, if there is one.
NumberedMatchAt(t, s) ==
  IF ~DigitsDotAt(t, s) THEN [ok |-> FALSE, title |-> <<>>, body |-> <<>>, end |-> 0]
  ELSE LET w == SkipIn(t, s, Digits) + 1
           ti == TitleFrom(t, w, SkipIn(t, w, WhiteSpace))
           p == BodyEnd(t, ti.eol + 1)
       IN IF ~ti.ok THEN [ok |-> FALSE, title |-> <<>>, body |-> <<>>, end |-> 0]
          ELSE [ok |-> TRUE,
                title |-> SubSeq(t, ti.from, ti.eol - 1),
                body |-> SubSeq(t, ti.eol + 1, p - 1),
                end |-> p]

\* title = match[2].trim();
\* body = match[3].split("\n").map(trim).filter(Boolean).join("\n")
NumberedMessage(m) ==
  LET lines == SplitLines(m.body)
      trimmed == [n \in 1..Len(lines) |-> Trim(lines[n])]
  IN CommitMessage(Trim(m.title),
                   JoinLines(SelectSeq(trimmed, LAMBDA l : l # <<>>)))

\* regex.exec in the while loop: the leftmost match from lastIndex on.
RECURSIVE NumberedFrom(_, _, _)
NumberedFrom(t, lastIndex, acc) ==
  IF lastIndex > Len(t) THEN acc
  ELSE LET m == NumberedMatchAt(t, lastIndex)
       IN IF m.ok THEN NumberedFrom(t, m.end, Append(acc, NumberedMessage(m)))
          ELSE NumberedFrom(t, lastIndex + 1, acc)

ParseNumberedList(response) == NumberedFrom(response, 1, <<>>)

(***************************************************************************)
(* The line-based parseCommitMessages of the second copy of the class in   *)
(* GitCommitMessageGenerator.ts: the text is split into lines, a line that *)
(* matches /^\d+\.\s*(.+)$/ opens a message, every other line that is not  *)
(* blank is added, trimmed, to the message that is open.                   *)
(***************************************************************************)
\* line.match(/^\d+\.\s*(.+)$/): match[1], where \s* gives back one token
\* of white space when nothing else is left for (.+).
EntryStartMatch(line) ==
  IF ~DigitsDotAt(line, 1) THEN [ok |-> FALSE, rest |-> <<>>]
  ELSE LET w == SkipIn(line, 1, Digits) + 1
           q == SkipIn(line, w, WhiteSpace)
       IN IF w > Len(line) THEN [ok |-> FALSE, rest |-> <<>>]
          ELSE IF q > Len(line) THEN [ok |-> TRUE, rest |-> <<line[Len(line)]>>]
          ELSE [ok |-> TRUE, rest |-> SubSeq(line, q, Len(line))]

\* replace(/^"|"$/g, ""): a quote at the start and a quote at the end.
StripQuotes(s) ==
  LET s1 == IF s # <<>> /\ Head(s) = QUOTE THEN Tail(s) ELSE s
  IN IF s1 # <<>> /\ s1[Len(s1)] = QUOTE THEN SubSeq(s1, 1, Len(s1) - 1) ELSE s1

\* createCommitMessage(lines)
CreateCommitMessage(lines) ==
  CommitMessage(lines[1], Trim(JoinLines(Tail(lines))))

RECURSIVE ByLinesFrom(_, _, _, _)
ByLinesFrom(lines, i, currentMessage, commitMessages) ==
  LET flushed == IF currentMessage # <<>>
                 THEN Append(commitMessages, CreateCommitMessage(currentMessage))
                 ELSE commitMessages
  IN IF i > Len(lines) THEN flushed
     ELSE LET match == EntryStartMatch(lines[i])
          IN IF match.ok
               THEN ByLinesFrom(lines, i + 1, <<Trim(StripQuotes(match.rest))>>, flushed)
             ELSE IF currentMessage # <<>> /\ Trim(lines[i]) # <<>>
               THEN ByLinesFrom(lines, i + 1, Append(currentMessage, Trim(lines[i])),
                                commitMessages)
             ELSE ByLinesFrom(lines, i + 1, currentMessage, commitMessages)

ParseCommitMessagesByLines(response) ==
  ByLinesFrom(SplitLines(response), 1, <<>>, <<>>)

(***************************************************************************)
(* parseCommitMessages: the try block and its catch.  The catch clause     *)
(* takes everything the try block throws.                                  *)
(***************************************************************************)
\* A variant: a catch that takes the SyntaxError of JSON.parse only.
CatchesSyntaxErrorOnly(thrown) == thrown = "SyntaxError"

Catches(thrown) == TRUE

\* A variant: the fallback reads the text of the fenced block, not the response.
ParseCommitMessagesFallbackOnJson(response) ==
  LET try == TryJson(response)
      jsonMatch == FenceMatch(response)
  IN IF try.thrown = "none"
       THEN [raised |-> FALSE, strategy |-> "json", messages |-> try.messages]
     ELSE [raised |-> FALSE, strategy |-> "numbered",
           messages |-> ParseNumberedList(IF jsonMatch.found THEN jsonMatch.group1
                                          ELSE response)]

ParseCommitMessages(response) ==
  LET try == TryJson(response)
  IN IF try.thrown = "none"
       THEN [raised |-> FALSE, strategy |-> "json", messages |-> try.messages]
     ELSE IF Catches(try.thrown)
       THEN [raised |-> FALSE, strategy |-> "numbered",
             messages |-> ParseNumberedList(response)]
     ELSE [raised |-> TRUE, strategy |-> "json", messages |-> <<>>]

\* A variant of the retry test that asks again for fewer than two messages.
NeedsRetryBelowTwo(messages) == Len(messages) < 2

\* generateCommitMessages: messages.length === 0
NeedsRetry(messages) == Len(messages) = 0

(***************************************************************************)
(* The staged changes.  A path is a sequence of tokens, each a fixed run   *)
(* of characters; the five runs the skip patterns end with are tokens of   *)
(* their own, so that pattern.test(filename), anchored by $, is a test of  *)
(* the path's last token.  A staged file is [path, bytes]: its path and    *)
(* the byte length of the text git diff prints for it.  A diff text is     *)
(* modelled as the sequence of the files whose texts were concatenated.    *)
(***************************************************************************)
DefaultMaxFileSizeKB == 100
BytesPerKB == 1024

SkipPatterns == {"package-lock.json", "yarn.lock", "pnpm-lock.yaml", ".svg", ".map"}

\* A variant of shouldSkipFile with no pattern for source maps.
ShouldSkipFileNoMap(filename) ==
  filename # <<>> /\ filename[Len(filename)] \in SkipPatterns \ {".map"}

ShouldSkipFile(filename) ==
  filename # <<>> /\ filename[Len(filename)] \in SkipPatterns

\* A variant of isFileTooLarge that compares whole kilobytes.
IsFileTooLargeWholeKB(fileDiff, maxFileSizeKB) ==
  fileDiff.bytes \div BytesPerKB > maxFileSizeKB

\* A variant of isFileTooLarge that is not strict.
IsFileTooLargeAtBudget(fileDiff, maxFileSizeKB) ==
  fileDiff.bytes >= maxFileSizeKB * BytesPerKB

\* getFileSizeKB(fileDiff) > maxFileSizeKB, with getFileSizeKB = bytes / 1024.
IsFileTooLarge(fileDiff, maxFileSizeKB) ==
  fileDiff.bytes > maxFileSizeKB * BytesPerKB

Exec(cmd, arg) == [cmd |-> cmd, arg |-> arg]

\* A variant of the failure of getGitDiff: the call that threw is made again.
DiffFailedAfterRetry(execs) ==
  [ok |-> FALSE, diff |-> <<>>, warns |-> <<>>,
   execs |-> Append(execs, execs[Len(execs)])]

DiffFailed(execs) == [ok |-> FALSE, diff |-> <<>>, warns |-> <<>>, execs |-> execs]

\* The messages of the errors getGitDiff and callClaudeAPI throw.
GetGitDiffError == "Failed to get Git diff"
CallClaudeAPIError == "Failed to call Claude API"

\* A variant of the catch of generateCommitMessages that throws nothing.
Swallowed(thrown) == ""

\* generateCommitMessages: catch (error) { console.error(...); throw error; }
Rethrown(thrown) == thrown

\* A variant of the loop of getFilteredDiff that reads the diff of every
\* file and tests its size before it tests the exclusion patterns.
RECURSIVE FilteredDiffSizeFirst(_, _, _, _, _)
FilteredDiffSizeFirst(stagedFiles, i, acc, failAt, maxFileSizeKB) ==
  IF i > Len(stagedFiles) THEN acc
  ELSE LET file == stagedFiles[i]
           execs == Append(acc.execs, Exec("diff", file.path))
       IN IF Len(execs) = failAt
            THEN [DiffFailed(execs) EXCEPT !.warns = acc.warns]
          ELSE IF IsFileTooLarge(file, maxFileSizeKB)
            THEN FilteredDiffSizeFirst(stagedFiles, i + 1,
                   [acc EXCEPT !.execs = execs,
                               !.warns = Append(acc.warns, file.path)],
                   failAt, maxFileSizeKB)
          ELSE IF ShouldSkipFile(file.path)
            THEN FilteredDiffSizeFirst(stagedFiles, i + 1,
                   [acc EXCEPT !.execs = execs], failAt, maxFileSizeKB)
          ELSE FilteredDiffSizeFirst(stagedFiles, i + 1,
                 [acc EXCEPT !.execs = execs,
                             !.diff = Append(acc.diff, file)],
                 failAt, maxFileSizeKB)

(***************************************************************************)
(* getFilteredDiff: the loop over stagedFiles from index i on.  acc holds  *)
(* filteredDiff, the warnings and the commands run so far.  failAt is the  *)
(* number of the execSync call that throws (0: none does).                 *)
(***************************************************************************)
RECURSIVE FilteredDiffFrom(_, _, _, _, _)
FilteredDiffFrom(stagedFiles, i, acc, failAt, maxFileSizeKB) ==
  IF i > Len(stagedFiles) THEN acc
  ELSE LET file == stagedFiles[i]
           execs == Append(acc.execs, Exec("diff", file.path))
       IN IF ShouldSkipFile(file.path)
            THEN FilteredDiffFrom(stagedFiles, i + 1, acc, failAt, maxFileSizeKB)
          ELSE IF Len(execs) = failAt
            THEN [DiffFailed(execs) EXCEPT !.warns = acc.warns]
          ELSE IF IsFileTooLarge(file, maxFileSizeKB)
            THEN FilteredDiffFrom(stagedFiles, i + 1,
                   [acc EXCEPT !.execs = execs,
                               !.warns = Append(acc.warns, file.path)],
                   failAt, maxFileSizeKB)
          ELSE FilteredDiffFrom(stagedFiles, i + 1,
                 [acc EXCEPT !.execs = execs,
                             !.diff = Append(acc.diff, file)],
                 failAt, maxFileSizeKB)

\* A variant of getFilteredDiff that goes through the list from its end.
GetFilteredDiffReversed(stagedFiles, execs, failAt, maxFileSizeKB) ==
  FilteredDiffFrom([n \in 1..Len(stagedFiles) |-> stagedFiles[Len(stagedFiles) + 1 - n]], 1,
    [ok |-> TRUE, diff |-> <<>>, warns |-> <<>>, execs |-> execs],
    failAt, maxFileSizeKB)

GetFilteredDiff(stagedFiles, execs, failAt, maxFileSizeKB) ==
  FilteredDiffFrom(stagedFiles, 1,
    [ok |-> TRUE, diff |-> <<>>, warns |-> <<>>, execs |-> execs],
    failAt, maxFileSizeKB)

\* getGitDiff: getStagedFiles (git diff --staged --name-only), then
\* getFilteredDiff; what either throws is thrown on as "Failed to get Git diff".
GetGitDiff(staged, failAt, maxFileSizeKB) ==
  LET execs == <<Exec("names", <<>>)>>
  IN IF failAt = 1 THEN DiffFailed(execs)
     ELSE GetFilteredDiff(staged, execs, failAt, maxFileSizeKB)

(***************************************************************************)
(* execSync(command) runs /bin/sh -c command.  ShellScan reads the command *)
(* line of executeGitCommit from the token after the quote that opens the  *)
(* message, as a POSIX shell does: dq tells that a double-quoted part is   *)
(* open, cur is the word under construction (has: there is one), words    *)
(* the finished words after -m.  It ends at the end of the text ("eof"),   *)
(* at a line break outside quotes, which ends the git command              *)
(* ("newline"), or on text it cannot parse ("syntax").  BQ is one          *)
(* backquote: the text between two of them is run as a command and its     *)
(* output, empty for the words of this model, stands in its place.         *)
(***************************************************************************)
BQ == "'"

RECURSIVE ShellChars(_)
ShellChars(t) ==
  IF t = <<>> THEN <<>>
  ELSE (IF Head(t) = FENCE THEN <<BQ, BQ, BQ>>
        ELSE IF Head(t) = FENCEJSON THEN <<BQ, BQ, BQ, "json">>
        ELSE <<Head(t)>>) \o ShellChars(Tail(t))

\* The backquote that closes a command substitution opened before index j.
RECURSIVE CloseBQ(_, _)
CloseBQ(t, j) ==
  IF j > Len(t) THEN j
  ELSE IF t[j] = BQ THEN j
  ELSE IF t[j] = BSL THEN CloseBQ(t, j + 2)
  ELSE CloseBQ(t, j + 1)

RECURSIVE ShellScan(_, _, _, _, _, _)
ShellScan(t, i, dq, cur, has, words) ==
  LET done == IF has THEN Append(words, cur) ELSE words
  IN IF i > Len(t)
       THEN IF dq THEN [end |-> "syntax", words |-> <<>>, at |-> i]
            ELSE [end |-> "eof", words |-> done, at |-> i]
     ELSE IF t[i] = BQ
       THEN IF CloseBQ(t, i + 1) > Len(t)
            THEN [end |-> "syntax", words |-> <<>>, at |-> i]
            ELSE ShellScan(t, CloseBQ(t, i + 1) + 1, dq, cur, has, words)
     ELSE IF t[i] = BSL
       THEN IF i = Len(t) THEN ShellScan(t, i + 1, dq, Append(cur, BSL), TRUE, words)
            ELSE IF t[i + 1] = NL THEN ShellScan(t, i + 2, dq, cur, has, words)
            ELSE IF dq /\ t[i + 1] \notin {QUOTE, BSL, BQ}
              THEN ShellScan(t, i + 1, dq, Append(cur, BSL), TRUE, words)
            ELSE ShellScan(t, i + 2, dq, Append(cur, t[i + 1]), TRUE, words)
     ELSE IF t[i] = QUOTE THEN ShellScan(t, i + 1, ~dq, cur, TRUE, words)
     ELSE IF dq THEN ShellScan(t, i + 1, dq, Append(cur, t[i]), TRUE, words)
     ELSE IF t[i] = SP THEN ShellScan(t, i + 1, FALSE, <<>>, FALSE, done)
     ELSE IF t[i] = NL THEN [end |-> "newline", words |-> done, at |-> i]
     ELSE ShellScan(t, i + 1, FALSE, Append(cur, t[i]), TRUE, words)

(***************************************************************************)
(* sh -c 'git commit -m "<escapedMessage>"'.  ran: the shell ran git       *)
(* commit; args: the words it passed after -m; failedAfter: the shell      *)
(* ended with an error after that, on the text that follows a line break   *)
(* outside quotes, which it takes for a command of its own.                *)
(***************************************************************************)
ShellGitCommit(escapedMessage) ==
  LET t == ShellChars(escapedMessage) \o <<QUOTE>>
      r == ShellScan(t, 1, TRUE, <<>>, TRUE, <<>>)
  IN IF r.end = "syntax" THEN [ran |-> FALSE, args |-> <<>>, failedAfter |-> TRUE]
     ELSE [ran |-> TRUE, args |-> r.words,
           failedAfter |-> r.end = "newline" /\ SkipIn(t, r.at, WhiteSpace) <= Len(t)]

(***************************************************************************)
(* git commit -m <args> on the repository: it fails with nothing staged,   *)
(* with a word after the message (a pathspec that matches no staged path), *)
(* with a message of white space only, or when a hook rejects the commit   *)
(* (hookOk = FALSE); otherwise it records the message and empties the      *)
(* staging area.                                                           *)
(***************************************************************************)
GitCommitSucceeds(r, args, hookOk) ==
  /\ r.staged # <<>>
  /\ Len(args) = 1
  /\ Trim(args[1]) # <<>>
  /\ hookOk

GitCommit(r, args, hookOk) ==
  IF GitCommitSucceeds(r, args, hookOk)
  THEN [staged |-> <<>>, log |-> Append(r.log, args[1])]
  ELSE r

\* executeGitCommit: the message composed and escaped, and the command run.
FullMessage(message) == message.title \o <<NL, NL>> \o message.body

RECURSIVE EscapeQuotes(_)
EscapeQuotes(s) ==
  IF s = <<>> THEN <<>>
  ELSE (IF Head(s) = QUOTE THEN <<BSL, QUOTE>> ELSE <<Head(s)>>)
         \o EscapeQuotes(Tail(s))

ExecuteGitCommit(r, message, hookOk) ==
  LET escapedMessage == EscapeQuotes(FullMessage(message))
      sh == ShellGitCommit(escapedMessage)
  IN [repo |-> IF sh.ran THEN GitCommit(r, sh.args, hookOk) ELSE r,
      execs |-> <<Exec("commit", escapedMessage)>>,
      threw |-> ~sh.ran \/ sh.failedAfter \/ ~GitCommitSucceeds(r, sh.args, hookOk)]

\* A variant of validateStagedChanges that lets an empty staging area pass.
ValidateStagedChangesLax(r, namesFail) ==
  [execs |-> <<Exec("names", <<>>)>>, threw |-> namesFail]

\* validateStagedChanges: git diff --staged --name-only throws (namesFail),
\* or its trimmed output is empty, and then the method throws.
ValidateStagedChanges(r, namesFail) ==
  [execs |-> <<Exec("names", <<>>)>>, threw |-> namesFail \/ r.staged = <<>>]

NoChangesStaged == "No changes staged for commit"

\* A variant of commitChanges that runs executeGitCommit a second time.
CommitChangesTwice(r, message, namesFail, hookOk) ==
  LET v == ValidateStagedChanges(r, namesFail)
      c == ExecuteGitCommit(r, message, hookOk)
      d == ExecuteGitCommit(c.repo, message, hookOk)
  IN IF v.threw THEN [repo |-> r, execs |-> v.execs, error |-> NoChangesStaged]
     ELSE [repo |-> d.repo, execs |-> v.execs \o c.execs \o d.execs,
           error |-> IF c.threw \/ d.threw THEN NoChangesStaged ELSE ""]

(***************************************************************************)
(* commitChanges: validateStagedChanges, then executeGitCommit; whatever   *)
(* either throws is caught and thrown again as "No changes staged for      *)
(* commit".                                                                *)
(***************************************************************************)
CommitChanges(r, message, namesFail, hookOk) ==
  LET v == ValidateStagedChanges(r, namesFail)
      c == ExecuteGitCommit(r, message, hookOk)
  IN IF v.threw THEN [repo |-> r, execs |-> v.execs, error |-> NoChangesStaged]
     ELSE [repo |-> c.repo, execs |-> v.execs \o c.execs,
           error |-> IF c.threw THEN NoChangesStaged ELSE ""]

(***************************************************************************)
(* The constructor: initializeOptions and validateLanguage.  An option of  *)
(* GeneratorOptions is <<>> when it is not given (undefined) and <<v>>     *)
(* when it is given as v.  A number is [nan, n]: NaN, or the integer n.    *)
(***************************************************************************)
SUPPORTED_LANGUAGES == <<"en", "ko", "ja", "zh-CN", "zh-TW">>

Num(n) == [nan |-> FALSE, n |-> n]
NaN == [nan |-> TRUE, n |-> 0]

DefaultMaxTokens == 500
DefaultNumberOfSuggestions == 3
DefaultModel == "claude-3-5-sonnet-20241022"

\* x || d for a number: undefined, 0 and NaN give d.
NumberOr(x, d) ==
  IF x # <<>> /\ ~x[1].nan /\ x[1].n # 0 THEN x[1] ELSE Num(d)

\* x || d for a string: undefined and "" give d.
StringOr(x, d) ==
  IF x # <<>> /\ x[1] # "" THEN x[1] ELSE d

\* SUPPORTED_LANGUAGES.includes(lang)
Includes(list, x) == \E n \in 1..Len(list) : list[n] = x

\* validateLanguage(lang): the language kept, and the warnings printed.
ValidateLanguage(lang) ==
  IF lang = "" \/ ~Includes(SUPPORTED_LANGUAGES, lang)
  THEN [language |-> "en", warns |-> <<lang>>]
  ELSE [language |-> lang, warns |-> <<>>]

\* initializeOptions(options): this.options, and the warnings printed.
InitializeOptions(o) ==
  LET lang == ValidateLanguage(StringOr(o.language, "en"))
  IN [options |-> [maxTokens |-> NumberOr(o.maxTokens, DefaultMaxTokens),
                   temperature |-> NumberOr(o.temperature, 0),
                   model |-> StringOr(o.model, DefaultModel),
                   numberOfSuggestions |->
                     NumberOr(o.numberOfSuggestions, DefaultNumberOfSuggestions),
                   maxFileSizeKB |-> NumberOr(o.maxFileSizeKB, DefaultMaxFileSizeKB),
                   language |-> lang.language],
      warns |-> lang.warns]

(***************************************************************************)
(* cli.ts.  The configuration store holds apiKey, language and provider,   *)
(* each <<>> when it is not stored and <<v>> when v is stored.  The        *)
(* options commander hands to the action are key, language and provider    *)
(* (<<>> when the flag is not there, <<v>> for the flag with value v),     *)
(* showConfig, and number, the text after --number ("3" when the flag is   *)
(* not there).                                                             *)
(***************************************************************************)
\* if (x) for an optional string: neither undefined nor "".
Truthy(x) == x # <<>> /\ x[1] # ""

SupportedProviders == {"anthropic", "openai"}

\* What console.error prints: the setting it is about and the value refused.
CliError(about, value) == [about |-> about, value |-> value]

\* saveConfig(options): the store after it, and what it printed as errors.
SaveConfig(config, o) ==
  LET languageOk == Truthy(o.language) /\ Includes(SUPPORTED_LANGUAGES, o.language[1])
      providerOk == Truthy(o.provider) /\ o.provider[1] \in SupportedProviders
  IN [config |-> [apiKey |-> IF Truthy(o.key) THEN o.key ELSE config.apiKey,
                  language |-> IF languageOk THEN o.language ELSE config.language,
                  provider |-> IF providerOk THEN o.provider ELSE config.provider],
      errors |-> (IF Truthy(o.language) /\ ~languageOk
                  THEN <<CliError("language", o.language[1])>> ELSE <<>>)
                 \o (IF Truthy(o.provider) /\ ~providerOk
                     THEN <<CliError("provider", o.provider[1])>> ELSE <<>>)]

\* getApiKey(): the stored key, or null (<<>>) and an error printed.
GetApiKey(config) == IF Truthy(config.apiKey) THEN config.apiKey ELSE <<>>

\* getLanguage(): config.get("language") || "en"
GetLanguage(config) == StringOr(config.language, "en")

\* parseInt(text): white space skipped, a sign, then the decimal digits the
\* text begins with; NaN when there is none.
DecimalDigits == <<"0", "1", "2", "3">>

DigitValue(c) == (CHOOSE n \in 1..Len(DecimalDigits) : DecimalDigits[n] = c) - 1

RECURSIVE DecimalValue(_)
DecimalValue(ds) ==
  IF ds = <<>> THEN 0
  ELSE 10 * DecimalValue(SubSeq(ds, 1, Len(ds) - 1)) + DigitValue(ds[Len(ds)])

ParseInt(text) ==
  LET t == TrimStart(text)
      signed == t # <<>> /\ t[1] \in {"-", "+"}
      u == IF signed THEN Tail(t) ELSE t
      end == SkipIn(u, 1, { DecimalDigits[n] : n \in 1..Len(DecimalDigits) })
  IN IF end = 1 THEN NaN
     ELSE Num((IF signed /\ t[1] = "-" THEN -1 ELSE 1) * DecimalValue(SubSeq(u, 1, end - 1)))

\* options.key || options.language || options.provider
CarriesConfigFlag(o) == Truthy(o.key) \/ Truthy(o.language) \/ Truthy(o.provider)

(***************************************************************************)
(* State.                                                                  *)
(*   pc         where the run stands                                       *)
(*   repo       the repository: staged, the staged files in the order git  *)
(*              lists them, and log, the messages of the commits made      *)
(*   options    this.options of the generator                              *)
(*   collected  what getGitDiff returned or threw, the warnings it printed *)
(*              and the git commands it ran                                *)
(*   source     how the response text under extraction was made           *)
(*   response   the response text handed to parseCommitMessages           *)
(*   parsed     what parseCommitMessages returned or raised                *)
(*   repo0      the repository when the run began                          *)
(*   requests   the diffs of the generation requests sent, in order        *)
(*   extracted  what parseCommitMessages returned for each response        *)
(*   candidates what generateCommitMessages returned                       *)
(*   selected   the message handed to commitChanges: <<>> or <<message>>   *)
(*   commitExecs the git commands commitChanges ran                        *)
(*   error      the message of the error the run ended with ("": none)     *)
(*   outcome    how the run ended ("": it has not)                         *)
(*   given      the GeneratorOptions handed to the constructor             *)
(*   warned     the languages the constructor warned about, in order       *)
(*   config     the configuration store                                    *)
(*   flags      the options commander hands to the action of the program   *)
(*   reported   what cli.ts printed with console.error outside the catch   *)
(*              of the action, in order                                    *)
(***************************************************************************)
VARIABLES pc, repo, options, collected, source, response, parsed,
          repo0, requests, extracted, candidates, selected, commitExecs,
          error, outcome, given, warned, config, flags, reported

runVars == <<repo0, requests, extracted, candidates, selected, commitExecs,
             error, outcome>>

cliVars == <<config, flags, reported>>

vars == <<pc, repo, options, collected, source, response, parsed, runVars,
          given, warned, cliVars>>

MaxFiles == 2

Paths ==
  { <<"a", ".ts">>, <<"b", ".ts">>, <<"a", ".svg", ".ts">>,
    <<"package-lock.json">>, <<"a", "/", "yarn.lock">>, <<"pnpm-lock.yaml">>,
    <<"a", ".svg">>, <<"a", ".ts", ".map">> }

DiffSizes ==
  { 1, BytesPerKB, BytesPerKB + 1,
    DefaultMaxFileSizeKB * BytesPerKB, DefaultMaxFileSizeKB * BytesPerKB + 1 }

StagedFile == [path : Paths, bytes : DiffSizes]

\* The lists of at most n staged files; git lists a path once.
StagedLists(n) ==
  UNION { { l \in [1..k -> StagedFile] :
              \A x, y \in 1..k : x # y => l[x].path # l[y].path } : k \in 0..n }

NoSource == [kind |-> "none", doc |-> JNull, wrap |-> "bare", pretty |-> FALSE, text |-> <<>>]

NotParsed == [done |-> FALSE, raised |-> FALSE, strategy |-> "none", messages |-> <<>>]

Parsed(r) ==
  [done |-> TRUE, raised |-> r.raised, strategy |-> r.strategy, messages |-> r.messages]

ParseIdle == source = NoSource /\ response = <<>> /\ parsed = NotParsed

NotCollected == [done |-> FALSE, ok |-> FALSE, diff |-> <<>>, warns |-> <<>>, execs |-> <<>>]

Collected(r) ==
  [done |-> TRUE, ok |-> r.ok, diff |-> r.diff, warns |-> r.warns, execs |-> r.execs]

NoOptions ==
  [maxTokens |-> <<>>, temperature |-> <<>>, model |-> <<>>,
   numberOfSuggestions |-> <<>>, maxFileSizeKB |-> <<>>, language |-> <<>>]

ConstructorIdle == given = NoOptions /\ warned = <<>>

NoConfig == [apiKey |-> <<>>, language |-> <<>>, provider |-> <<>>]

NoFlags ==
  [key |-> <<>>, language |-> <<>>, provider |-> <<>>, showConfig |-> FALSE,
   number |-> <<"3">>]

CliIdle == config = NoConfig /\ flags = NoFlags /\ reported = <<>>

\* this.options of a generator constructed with no option given.
DefaultOptions == InitializeOptions(NoOptions).options

RunIdle ==
  /\ repo0 = repo
  /\ requests = <<>> /\ extracted = <<>> /\ candidates = <<>>
  /\ selected = <<>> /\ commitExecs = <<>>
  /\ error = "" /\ outcome = ""

(***************************************************************************)
(* SpecDiff: getGitDiff on every list of staged files, with every call of  *)
(* execSync that may throw.                                                *)
(***************************************************************************)
InitDiff ==
  /\ pc = "diff"
  /\ repo \in [staged : StagedLists(MaxFiles), log : {<<>>}]
  /\ given \in { [NoOptions EXCEPT !.maxFileSizeKB = <<Num(kb)>>] :
                    kb \in {1, DefaultMaxFileSizeKB} }
  /\ options = InitializeOptions(given).options
  /\ warned = <<>>
  /\ collected = NotCollected
  /\ ParseIdle
  /\ RunIdle
  /\ CliIdle

RunGetGitDiff ==
  /\ pc = "diff"
  /\ \E failAt \in 0..(MaxFiles + 1) :
       collected' = Collected(GetGitDiff(repo.staged, failAt, options.maxFileSizeKB.n))
  /\ pc' = "diffDone"
  /\ UNCHANGED <<repo, options, given, warned, source, response, parsed, runVars, cliVars>>

NextDiff == RunGetGitDiff

SpecDiff == InitDiff /\ [][NextDiff]_vars

\* The files of a list of staged files, and how often a path is in a list.
FilesOf(l) == { l[n] : n \in 1..Len(l) }
Occurrences(l, x) == Cardinality({ n \in 1..Len(l) : l[n] = x })

\* A path that ends with one of the exclusion patterns of the specification.
ExcludedBySpec(path) ==
  /\ path # <<>>
  /\ \/ path[Len(path)] = "package-lock.json"
     \/ path[Len(path)] = "yarn.lock"
     \/ path[Len(path)] = "pnpm-lock.yaml"
     \/ path[Len(path)] = ".svg"
     \/ path[Len(path)] = ".map"

OverBudget(file) == file.bytes > options.maxFileSizeKB.n * BytesPerKB

\* C4: the curated diff getGitDiff returns holds the diff text of no path
\* that matches an exclusion pattern, whatever the size of that diff.
C4_ExcludedNeverInDiff ==
  (collected.done /\ collected.ok) =>
    \A f \in FilesOf(repo.staged) :
      ExcludedBySpec(f.path) => f \notin FilesOf(collected.diff)

\* An excluded path under the size budget was staged beside a path that is
\* in the curated diff.
C4_Witness ==
  /\ collected.done /\ collected.ok
  /\ collected.diff # <<>>
  /\ \E f \in FilesOf(repo.staged) : ExcludedBySpec(f.path) /\ ~OverBudget(f)

\* C5: a path that is not excluded and over the size budget is left out of
\* the curated diff and named by exactly one warning; a path that is not
\* excluded and within the budget is in the curated diff, wherever the
\* oversized paths stand in the list.
C5_SizeFilterPerUnit ==
  (collected.done /\ collected.ok) =>
    \A f \in FilesOf(repo.staged) :
      ~ExcludedBySpec(f.path) =>
        IF OverBudget(f)
        THEN f \notin FilesOf(collected.diff) /\ Occurrences(collected.warns, f.path) = 1
        ELSE f \in FilesOf(collected.diff) /\ Occurrences(collected.warns, f.path) = 0

\* An oversized path stands first and a path within the budget after it.
C5_Witness ==
  /\ collected.done /\ collected.ok
  /\ Len(repo.staged) >= 2
  /\ ~ExcludedBySpec(repo.staged[1].path) /\ OverBudget(repo.staged[1])
  /\ ~ExcludedBySpec(repo.staged[2].path) /\ ~OverBudget(repo.staged[2])
  /\ collected.diff = <<repo.staged[2]>>
  /\ collected.warns = <<repo.staged[1].path>>

\* C19: the curated diff is the diff texts of the included paths, one after
\* the other with nothing between them, in the order git listed the paths;
\* no path is moved or taken twice.
C19_DiffInListedOrder ==
  (collected.done /\ collected.ok) =>
    collected.diff
      = SelectSeq(repo.staged, LAMBDA f : ~ExcludedBySpec(f.path) /\ ~OverBudget(f))

\* Two paths were included.
C19_Witness ==
  /\ collected.done /\ collected.ok
  /\ Len(repo.staged) = 2
  /\ collected.diff = repo.staged
  /\ repo.staged[1].bytes > repo.staged[2].bytes

\* C24: for a path that matches an exclusion pattern getFilteredDiff runs
\* no git diff (so that no size is taken of its diff) and prints no warning;
\* every warning names a path that is not excluded and is over the budget.
C24_ExcludedNeverRead ==
  collected.done =>
    /\ \A f \in FilesOf(repo.staged) :
         ExcludedBySpec(f.path) =>
           /\ Occurrences(collected.execs, Exec("diff", f.path)) = 0
           /\ Occurrences(collected.warns, f.path) = 0
    /\ \A n \in 1..Len(collected.warns) :
         \E f \in FilesOf(repo.staged) :
           /\ f.path = collected.warns[n]
           /\ ~ExcludedBySpec(f.path) /\ OverBudget(f)

\* An excluded path over the budget stands before a path dropped for size.
C24_Witness ==
  /\ collected.done /\ collected.ok
  /\ Len(repo.staged) = 2
  /\ ExcludedBySpec(repo.staged[1].path) /\ OverBudget(repo.staged[1])
  /\ collected.warns = <<repo.staged[2].path>>
  /\ collected.execs = <<Exec("names", <<>>), Exec("diff", repo.staged[2].path)>>

\* The size budget in bytes.
BudgetBytes == options.maxFileSizeKB.n * BytesPerKB

\* C25: the size test is strict: a path that is not excluded and whose diff
\* is of exactly maxFileSizeKB x 1024 bytes is in the curated diff and not
\* warned about; with one byte more it is left out and warned about once.
C25_SizeTestStrict ==
  (collected.done /\ collected.ok) =>
    \A f \in FilesOf(repo.staged) :
      ~ExcludedBySpec(f.path) =>
        /\ (f.bytes = BudgetBytes) =>
             (f \in FilesOf(collected.diff) /\ Occurrences(collected.warns, f.path) = 0)
        /\ (f.bytes = BudgetBytes + 1) =>
             (f \notin FilesOf(collected.diff) /\ Occurrences(collected.warns, f.path) = 1)

\* A path at the budget and a path one byte over it were staged.
C25_Witness ==
  /\ collected.done /\ collected.ok
  /\ Len(repo.staged) = 2
  /\ repo.staged[1].bytes = BudgetBytes /\ repo.staged[2].bytes = BudgetBytes + 1
  /\ collected.diff = <<repo.staged[1]>>
  /\ collected.warns = <<repo.staged[2].path>>

(***************************************************************************)
(* The response texts of the backend.  The prompt asks for a list of       *)
(* records {title, body} in a fenced block tagged json; the backend is     *)
(* free to answer anything.  A response is drawn either as the text of a   *)
(* JSON document (compact, or with line breaks and spaces between its      *)
(* parts), bare or in a fence, or as any short text over RawAlphabet.      *)
(***************************************************************************)
MaxRecords == 2
MaxTextLen == 5

\* A string as JSON writes it: quotes, backslashes and line breaks escaped.
RECURSIVE JsonEscape(_)
JsonEscape(s) ==
  IF s = <<>> THEN <<>>
  ELSE (IF Head(s) = QUOTE THEN <<BSL, QUOTE>>
        ELSE IF Head(s) = BSL THEN <<BSL, BSL>>
        ELSE IF Head(s) = NL THEN <<BSL, "n">>
        ELSE <<Head(s)>>) \o JsonEscape(Tail(s))

RenderString(s) == <<QUOTE>> \o JsonEscape(s) \o <<QUOTE>>

RECURSIVE Render(_, _), RenderItems(_, _, _)
Render(v, pretty) ==
  LET br == IF pretty THEN <<NL>> ELSE <<>>
  IN IF v.k = "str" THEN RenderString(v.s)
     ELSE IF v.k = "num" THEN <<"1">>
     ELSE IF v.k = "null" THEN <<"null">>
     ELSE IF v.k = "arr"
       THEN IF v.items = <<>> THEN <<"[", "]">>
            ELSE <<"[">> \o br \o RenderItems(v.items, FALSE, pretty) \o br \o <<"]">>
     ELSE <<"{">> \o RenderItems(v.items, TRUE, pretty) \o <<"}">>

RenderItems(items, members, pretty) ==
  LET one == IF members
             THEN RenderString(items[1].key) \o <<":">>
                    \o (IF pretty THEN <<SP>> ELSE <<>>) \o Render(items[1].val, pretty)
             ELSE Render(items[1], pretty)
  IN IF Len(items) = 1 THEN one
     ELSE one \o <<",">> \o (IF pretty THEN <<NL>> ELSE <<>>)
              \o RenderItems(Tail(items), members, pretty)

Member(key, val) == [key |-> key, val |-> val]
Record(title, body) ==
  JObj(<<Member(<<"title">>, JStr(title)), Member(<<"body">>, JStr(body))>>)

\* Records with a string title and a string body.
Records ==
  { Record(<<"a">>, <<"a">>),
    Record(<<SP, "a", NL>>, <<"a", NL, "n">>),
    Record(<<"1", DOT, "a">>, <<>>),
    Record(<<QUOTE, "a", BSL>>, <<NL, "a", SP>>),
    Record(<<"a", NL, "n">>, <<"a">>),
    Record(<<FENCE>>, <<"a">>),
    Record(<<FENCEJSON, "a", FENCE>>, <<"a">>) }

\* Elements that are no such record: a member is missing or is no string,
\* or the element is no object.
Malformed ==
  { JObj(<<Member(<<"body">>, JStr(<<"a">>))>>),
    JObj(<<Member(<<"title">>, JStr(<<"a">>))>>),
    JObj(<<Member(<<"title">>, JNum), Member(<<"body">>, JStr(<<"a">>))>>),
    JObj(<<Member(<<"title">>, JStr(<<"a">>)), Member(<<"body">>, JNull)>>),
    JNull }

ListsOf(S, n) == UNION { [1..k -> S] : k \in 0..n }

JsonDocs ==
  { JArr(l) : l \in ListsOf(Records \cup Malformed, MaxRecords) }
    \cup { Record(<<"a">>, <<"a">>), JStr(<<"a">>), JNum, JNull }

Wraps == {"bare", "fenced", "prose", "untagged"}

\* The payload as it stands in the response: alone, in a fence tagged json,
\* in such a fence with numbered prose before it, or in a fence with no tag.
Wrap(wrap, payload) ==
  IF wrap = "fenced" THEN <<FENCEJSON, NL>> \o payload \o <<NL, FENCE>>
  ELSE IF wrap = "prose"
    THEN <<"1", DOT, SP, "a", NL, FENCEJSON, NL>> \o payload \o <<NL, FENCE, NL>>
  ELSE IF wrap = "untagged" THEN <<FENCE, NL>> \o payload \o <<NL, FENCE>>
  ELSE payload

RawAlphabet == {"1", DOT, SP, NL, "a", QUOTE}

Sources ==
  [kind : {"json"}, doc : JsonDocs, wrap : Wraps, pretty : BOOLEAN, text : {<<>>}]
    \cup [kind : {"text"}, doc : {JNull}, wrap : {"bare"}, pretty : {FALSE},
          text : ListsOf(RawAlphabet, MaxTextLen)]

TextOf(src) ==
  IF src.kind = "json" THEN Wrap(src.wrap, Render(src.doc, src.pretty))
  ELSE src.text

(***************************************************************************)
(* SpecParse: parseCommitMessages on every response text.                  *)
(***************************************************************************)
DiffIdle ==
  /\ repo = [staged |-> <<>>, log |-> <<>>]
  /\ options = DefaultOptions
  /\ collected = NotCollected

InitParse ==
  /\ pc = "parse"
  /\ source \in Sources
  /\ response = TextOf(source)
  /\ parsed = NotParsed
  /\ DiffIdle
  /\ RunIdle
  /\ CliIdle
  /\ ConstructorIdle

RunParse ==
  /\ pc = "parse"
  /\ parsed' = Parsed(ParseCommitMessages(response))
  /\ pc' = "parsed"
  /\ UNCHANGED <<repo, options, given, warned, collected, source, response, runVars, cliVars>>

NextParse == RunParse

SpecParse == InitParse /\ [][NextParse]_vars

\* The decode of the try block: the response, or the group of the fenced
\* block when there is one, as JSON.parse reads it.
Decoded(text) ==
  JsonParse(IF FenceMatch(text).found THEN FenceMatch(text).group1 ELSE text)

DecodesToList(text) == Decoded(text).ok /\ Decoded(text).v.k = "arr"

IsStringRecord(v) ==
  /\ v.k = "obj"
  /\ Len(v.items) = 2
  /\ v.items[1].key = <<"title">> /\ v.items[1].val.k = "str"
  /\ v.items[2].key = <<"body">> /\ v.items[2].val.k = "str"

\* C7: when the response, an enclosing fenced block stripped, decodes to a
\* list, parseCommitMessages does not invoke the numbered-entry fallback,
\* also when the list is empty or a record lacks its title or its body.
C7_DecodedListNeverFallsBack ==
  (parsed.done /\ DecodesToList(response)) =>
    (~parsed.raised /\ parsed.strategy = "json")

\* C8: for a response that is a well-formed list of records with a string
\* title and a string body (bare, or in an enclosing fenced block),
\* parseCommitMessages returns one candidate per record, in list order,
\* with the record's title and body trimmed.
C8_OneCandidatePerRecord ==
  ( /\ parsed.done
    /\ source.kind = "json" /\ source.wrap \in {"bare", "fenced"}
    /\ source.doc.k = "arr"
    /\ \A n \in 1..Len(source.doc.items) : IsStringRecord(source.doc.items[n]) )
  => /\ ~parsed.raised
     /\ Len(parsed.messages) = Len(source.doc.items)
     /\ \A n \in 1..Len(source.doc.items) :
          /\ parsed.messages[n].title = Trim(source.doc.items[n].items[1].val.s)
          /\ parsed.messages[n].body = Trim(source.doc.items[n].items[2].val.s)

\* C9: parseCommitMessages raises on no response text.
C9_NeverRaises == parsed.done => ~parsed.raised

\* A decoded list with a malformed record went through without a raise.
C9_Witness ==
  /\ parsed.done /\ ~parsed.raised
  /\ source.kind = "json" /\ source.doc.k = "arr"
  /\ \E n \in 1..Len(source.doc.items) : source.doc.items[n] \in Malformed
  /\ parsed.messages = <<>>

\* C10: when the decode fails or gives a value that is no list,
\* parseCommitMessages does not raise and returns what parseNumberedList
\* gives on the response text itself; for a single object in a fenced block
\* with no numbered line that is the empty sequence.
C10_FallbackOnOriginalText ==
  (parsed.done /\ ~DecodesToList(response)) =>
    /\ ~parsed.raised
    /\ parsed.messages = ParseNumberedList(response)
    /\ (source.kind = "json" /\ source.doc.k = "obj" /\ source.wrap = "fenced")
         => parsed.messages = <<>>

\* A single object in a fenced block after a numbered line of prose: the
\* fallback reads the prose of the response.
C10_Witness ==
  /\ parsed.done /\ ~DecodesToList(response)
  /\ source.kind = "json" /\ source.doc.k = "obj" /\ source.wrap = "prose"
  /\ Len(parsed.messages) = 1
  /\ parsed.messages[1].title = <<"a">>

\* C14: every candidate parseCommitMessages returns, by the structured
\* decode or by the numbered-entry fallback, has a title with no line break
\* in it and a body with no white space at its ends, also when the title
\* string of a record holds a line break.
C14_TitleOneLineBodyTrimmed ==
  parsed.done =>
    \A k \in 1..Len(parsed.messages) :
      /\ \A n \in 1..Len(parsed.messages[k].title) : parsed.messages[k].title[n] # NL
      /\ parsed.messages[k].body = Trim(parsed.messages[k].body)

\* C22: for a well-formed list payload, what parseCommitMessages returns for
\* the payload in an enclosing fenced block, tagged json or not tagged, is
\* what it returns for the bare payload.
C22_FenceDoesNotChangeOutcome ==
  ( /\ parsed.done
    /\ source.kind = "json" /\ source.wrap \in {"fenced", "untagged"}
    /\ source.doc.k = "arr"
    /\ \A n \in 1..Len(source.doc.items) : IsStringRecord(source.doc.items[n]) )
  => LET bare == ParseCommitMessages(Wrap("bare", Render(source.doc, source.pretty)))
     IN parsed.raised = bare.raised /\ parsed.messages = bare.messages

(***************************************************************************)
(* SpecNumbered: the numbered-entry parsers on texts made of lines.  A     *)
(* text is at most MaxLines lines, with or without a line break after the  *)
(* last one.  No such text is JSON, so parseCommitMessages hands it to     *)
(* parseNumberedList; the line-based parseCommitMessages of the second     *)
(* copy of the class reads the same texts.                                 *)
(***************************************************************************)
MaxLines == 3

NumberedLines ==
  { <<>>, <<SP>>, <<"a">>, <<SP, "b", SP>>,
    <<"1", DOT, SP, "a">>, <<"2", DOT, "b">>,
    <<"1", DOT, SP, QUOTE, "a", QUOTE>>, <<"1", "2", DOT, SP, "b", SP>>,
    <<"a", SP, "1", DOT, "2", SP, "b">> }

LineTexts ==
  { JoinLines(ls) \o end : ls \in ListsOf(NumberedLines, MaxLines) \ {<<>>},
                           end \in {<<>>, <<NL>>} }

InitNumbered ==
  /\ pc = "parse"
  /\ source \in [kind : {"lines"}, doc : {JNull}, wrap : {"bare"}, pretty : {FALSE},
                 text : LineTexts]
  /\ response = source.text
  /\ parsed = NotParsed
  /\ DiffIdle
  /\ RunIdle
  /\ CliIdle
  /\ ConstructorIdle

\* The line-based parseCommitMessages(response).
RunParseByLines ==
  /\ pc = "parse"
  /\ parsed' = Parsed([raised |-> FALSE, strategy |-> "lines",
                       messages |-> ParseCommitMessagesByLines(response)])
  /\ pc' = "parsed"
  /\ UNCHANGED <<repo, options, given, warned, collected, source, response, runVars, cliVars>>

NextNumbered ==
  \/ RunParse
  \/ RunParseByLines

SpecNumbered == InitNumbered /\ [][NextNumbered]_vars

\* The grammar of the specification: a line <integer> "." <whitespace>* <rest>
\* starts an entry.
IsEntryStart(line) ==
  \E d \in 1..Len(line) :
    /\ \A n \in 1..d : line[n] \in Digits
    /\ d + 1 <= Len(line) /\ line[d + 1] = DOT
    /\ \E n \in (d + 2)..Len(line) : line[n] \notin WhiteSpace

\* <rest> of an entry-start line.
RestOf(line) ==
  LET dot == CHOOSE n \in 1..Len(line) : line[n] = DOT /\ \A m \in 1..(n - 1) : line[m] \in Digits
  IN Trim(SubSeq(line, dot + 1, Len(line)))

TextLines == SplitLines(response)

EntryStarts == { n \in 1..Len(TextLines) : IsEntryStart(TextLines[n]) }

\* The line number of the k-th entry-start line, and of the line that ends
\* the k-th entry.
EntryLine(k) ==
  CHOOSE n \in EntryStarts : Cardinality({ m \in EntryStarts : m <= n }) = k

EntryEnd(k) ==
  IF k < Cardinality(EntryStarts) THEN EntryLine(k + 1) ELSE Len(TextLines) + 1

WithoutQuotes(s) == SelectSeq(s, LAMBDA c : c # QUOTE)

\* The body the specification gives the k-th entry.
ExpectedBody(k) ==
  LET between == SubSeq(TextLines, EntryLine(k) + 1, EntryEnd(k) - 1)
      trimmed == [n \in 1..Len(between) |-> Trim(between[n])]
  IN Trim(JoinLines(SelectSeq(trimmed, LAMBDA l : l # <<>>)))

\* The title the specification gives the k-th entry: one layer of quotes
\* taken off <rest>, then trimmed.
ExpectedTitle(k) ==
  LET rest == RestOf(TextLines[EntryLine(k)])
      open == IF rest # <<>> /\ rest[1] = QUOTE THEN 2 ELSE 1
      close == IF Len(rest) >= open /\ rest[Len(rest)] = QUOTE
               THEN Len(rest) - 1 ELSE Len(rest)
  IN Trim(SubSeq(rest, open, close))

FallbackRan == parsed.done /\ parsed.strategy = "numbered"

\* C11: the numbered-entry fallback returns one candidate per entry-start
\* line, in the order of the text, also for an entry with no body line and
\* for an entry whose title is the last line with no line break after it;
\* with no entry-start line it returns the empty sequence.
C11_OneCandidatePerEntryStart ==
  FallbackRan =>
    /\ Len(parsed.messages) = Cardinality(EntryStarts)
    /\ \A k \in 1..Len(parsed.messages) :
         WithoutQuotes(parsed.messages[k].title)
           = WithoutQuotes(RestOf(TextLines[EntryLine(k)]))

\* C12: in the numbered-entry fallback the body of an entry is the lines
\* that are not blank between its title and the next entry-start line, each
\* trimmed, joined by single line breaks; a blank line does not end the
\* entry, and the lines before the first entry-start line are in no
\* candidate.
C12_BodyUpToNextEntryStart ==
  FallbackRan =>
    \A k \in 1..Len(parsed.messages) :
      /\ k <= Cardinality(EntryStarts)
      /\ parsed.messages[k].body = ExpectedBody(k)

\* C13: in the numbered-entry fallback the title of a candidate is the rest
\* of its entry-start line with one layer of quotes at its ends taken off,
\* then trimmed.
C13_TitleWithoutQuoteLayer ==
  FallbackRan =>
    \A k \in 1..Len(parsed.messages) :
      /\ k <= Cardinality(EntryStarts)
      /\ parsed.messages[k].title = ExpectedTitle(k)

\* C26: in the numbered-entry fallback an entry starts only at a line that
\* begins with <integer>.: the title of every candidate is the rest of such
\* a line (quotes aside), and a text in which no line begins so, though a
\* line holds an integer and a dot further on, gives no candidate.
C26_EntryStartsAtLineStartOnly ==
  FallbackRan =>
    /\ (EntryStarts = {}) => parsed.messages = <<>>
    /\ \A k \in 1..Len(parsed.messages) :
         \E n \in EntryStarts :
           WithoutQuotes(parsed.messages[k].title)
             = WithoutQuotes(RestOf(TextLines[n]))

(***************************************************************************)
(* SpecConstruct: new GitCommitMessageGenerator(apiKey, options) on every  *)
(* GeneratorOptions drawn from the inputs below.                           *)
(***************************************************************************)
LanguageInputs == {"en", "ko", "ja", "zh-CN", "zh-TW", "KO", "fr", ""}

NumberInputs == {NaN, Num(0), Num(1), Num(7), Num(-1)}

Optional(S) == {<<>>} \cup { <<x>> : x \in S }

InitConstruct ==
  /\ pc = "new"
  /\ given \in [maxTokens : Optional(NumberInputs),
                temperature : Optional({Num(1)}),
                model : Optional({"claude-3-haiku"}),
                numberOfSuggestions : Optional(NumberInputs),
                maxFileSizeKB : Optional(NumberInputs),
                language : Optional(LanguageInputs)]
  /\ warned = <<>>
  /\ DiffIdle
  /\ ParseIdle
  /\ RunIdle
  /\ CliIdle

\* constructor: this.options = this.initializeOptions(options)
Construct ==
  /\ pc = "new"
  /\ options' = InitializeOptions(given).options
  /\ warned' = InitializeOptions(given).warns
  /\ pc' = "constructed"
  /\ UNCHANGED <<repo, collected, source, response, parsed, runVars, given, cliVars>>

NextConstruct == Construct

SpecConstruct == InitConstruct /\ [][NextConstruct]_vars

SupportedBySpec == {"en", "ko", "ja", "zh-CN", "zh-TW"}

\* C20: after construction the language is a supported code: a supported
\* code that was given is kept with no warning, and every other value that
\* was given, a case variant such as KO among them, is replaced by en with
\* exactly one warning.
C20_LanguageSupportedOneWarning ==
  (pc = "constructed") =>
    /\ options.language \in SupportedBySpec
    /\ (given.language # <<>>) =>
         IF given.language[1] \in SupportedBySpec
         THEN options.language = given.language[1] /\ warned = <<>>
         ELSE options.language = "en" /\ Len(warned) = 1

\* An option that is not given, or is given as 0 or as NaN.
Defaulted(x) == x = <<>> \/ x[1].nan \/ x[1].n = 0

\* C30: after construction numberOfSuggestions, maxFileSizeKB and maxTokens
\* are positive numbers; a value given as 0 or as NaN, or not given, is
\* replaced by the default (3 suggestions, 100 KB, 500 tokens).
C30_NumericOptionsPositive ==
  (pc = "constructed") =>
    /\ \A x \in {options.numberOfSuggestions, options.maxFileSizeKB, options.maxTokens} :
         ~x.nan /\ x.n > 0
    /\ Defaulted(given.numberOfSuggestions) => options.numberOfSuggestions = Num(3)
    /\ Defaulted(given.maxFileSizeKB) => options.maxFileSizeKB = Num(100)
    /\ Defaulted(given.maxTokens) => options.maxTokens = Num(500)

(***************************************************************************)
(* Spec: one run of the command line tool with a stored API key and no     *)
(* configuration flag: generateAndSelectCommitMessage, then commitChanges. *)
(* The run is suspended while it awaits the backend and while it awaits    *)
(* the user; an interrupt may end it there.                                *)
(***************************************************************************)
RunFiles ==
  { [path |-> <<"a", ".ts">>, bytes |-> 1],
    [path |-> <<"a", ".svg">>, bytes |-> 1],
    [path |-> <<"b", ".ts">>, bytes |-> DefaultMaxFileSizeKB * BytesPerKB + 1] }

RunStaged ==
  { l \in StagedLists(MaxFiles) : \A n \in 1..Len(l) : l[n] \in RunFiles }

RunDocs ==
  { JArr(<<Record(<<"a">>, <<"a">>), Record(<<"a", BSL, QUOTE>>, <<"b">>)>>),
    JArr(<<Record(<<"a", SP, QUOTE, "b", QUOTE>>, <<>>)>>),
    JArr(<<>>) }

\* What the backend answers: lists in a fenced block, a numbered entry, prose.
RunResponses ==
  { Wrap("fenced", Render(d, TRUE)) : d \in RunDocs }
    \cup { <<"1", DOT, SP, "a", NL, "a">>, <<"a">> }

\* What the user leaves in the editor.
EditorTexts == { <<"b">>, <<SP, "b", BSL, QUOTE, NL>>, <<SP>> }

Init ==
  /\ pc = "start"
  /\ repo \in [staged : RunStaged, log : {<<>>}]
  /\ options = DefaultOptions
  /\ collected = NotCollected
  /\ ParseIdle
  /\ RunIdle
  /\ CliIdle
  /\ ConstructorIdle

Ended(how, message) ==
  /\ pc' = "done"
  /\ outcome' = how
  /\ error' = message

\* generateCommitMessages up to its first await: getGitDiff, then the
\* request of callClaudeAPI(diff).
Generate ==
  /\ pc = "start"
  /\ \E failAt \in 0..(MaxFiles + 1) :
       LET r == GetGitDiff(repo.staged, failAt, options.maxFileSizeKB.n)
       IN /\ collected' = Collected(r)
          /\ IF r.ok
             THEN /\ requests' = <<r.diff>>
                  /\ pc' = "await1"
                  /\ UNCHANGED <<error, outcome>>
             ELSE /\ Ended("collectFailed", Rethrown(GetGitDiffError))
                  /\ UNCHANGED requests
  /\ UNCHANGED <<repo, options, given, warned, source, response, parsed, repo0, extracted,
                 candidates, selected, commitExecs, cliVars>>

\* callClaudeAPI throws, on the first request or on the second.
BackendFails ==
  /\ pc \in {"await1", "await2"}
  /\ Ended("generationFailed", Rethrown(CallClaudeAPIError))
  /\ UNCHANGED <<repo, options, given, warned, collected, source, response, parsed, repo0,
                 requests, extracted, candidates, selected, commitExecs, cliVars>>

\* The first response: it is parsed, and with no message in it the second
\* request is made.
FirstResponse ==
  /\ pc = "await1"
  /\ \E text \in RunResponses :
       /\ response' = text
       /\ parsed' = Parsed(ParseCommitMessages(text))
  /\ IF parsed'.raised
     THEN /\ Ended("generationFailed", "parse")
          /\ UNCHANGED <<requests, extracted, candidates>>
     ELSE /\ extracted' = Append(extracted, parsed'.messages)
          /\ UNCHANGED <<error, outcome>>
          /\ IF NeedsRetry(parsed'.messages)
             THEN /\ requests' = Append(requests, collected.diff)
                  /\ pc' = "await2"
                  /\ UNCHANGED candidates
             ELSE /\ candidates' = parsed'.messages
                  /\ pc' = "select"
                  /\ UNCHANGED requests
  /\ UNCHANGED <<repo, options, given, warned, collected, source, repo0, selected, commitExecs, cliVars>>

\* The response to the second request: what is parsed from it is returned.
RetryResponse ==
  /\ pc = "await2"
  /\ \E text \in RunResponses :
       /\ response' = text
       /\ parsed' = Parsed(ParseCommitMessages(text))
  /\ IF parsed'.raised
     THEN /\ Ended("generationFailed", "parse")
          /\ UNCHANGED <<extracted, candidates>>
     ELSE /\ extracted' = Append(extracted, parsed'.messages)
          /\ candidates' = parsed'.messages
          /\ pc' = "select"
          /\ UNCHANGED <<error, outcome>>
  /\ UNCHANGED <<repo, options, given, warned, collected, source, repo0, requests, selected,
                 commitExecs, cliVars>>

\* select(): one of the messages.
SelectMessage ==
  /\ pc = "select"
  /\ \E n \in 1..Len(candidates) : selected' = <<candidates[n]>>
  /\ pc' = "confirm"
  /\ UNCHANGED <<repo, options, given, warned, collected, source, response, parsed, repo0,
                 requests, extracted, candidates, commitExecs, error, outcome, cliVars>>

\* A variant of the action of the program with no test of selectedMessage:
\* commitChanges is called after Cancel, lists the staged paths and fails.
SelectCancelCommits ==
  /\ pc = "select"
  /\ commitExecs' = <<Exec("names", <<>>)>>
  /\ Ended("commitFailed", NoChangesStaged)
  /\ UNCHANGED <<repo, options, given, warned, collected, source, response, parsed, repo0,
                 requests, extracted, candidates, selected, cliVars>>

\* select(): Cancel, and "Commit cancelled by user."
SelectCancel ==
  /\ pc = "select"
  /\ Ended("cancelled", "")
  /\ UNCHANGED <<repo, options, given, warned, collected, source, response, parsed, repo0,
                 requests, extracted, candidates, selected, commitExecs, cliVars>>

\* The user does not edit the message.
KeepMessage ==
  /\ pc = "confirm"
  /\ pc' = "commit"
  /\ UNCHANGED <<repo, options, given, warned, collected, source, response, parsed, runVars, cliVars>>

\* editCommitMessage: the title, the body, both or neither typed anew.
EditMessage ==
  /\ pc = "confirm"
  /\ \E editTitle, editBody \in BOOLEAN, typedTitle, typedBody \in EditorTexts :
       selected' = <<CommitMessage(
                       IF editTitle THEN Trim(typedTitle) ELSE selected[1].title,
                       IF editBody THEN Trim(typedBody) ELSE selected[1].body)>>
  /\ pc' = "commit"
  /\ UNCHANGED <<repo, options, given, warned, collected, source, response, parsed, repo0,
                 requests, extracted, candidates, commitExecs, error, outcome, cliVars>>

\* commitChanges(generator, selectedMessage), and the catch of the action.
Commit ==
  /\ pc = "commit"
  /\ \E namesFail, hookOk \in BOOLEAN :
       LET c == CommitChanges(repo, selected[1], namesFail, hookOk)
       IN /\ repo' = c.repo
          /\ commitExecs' = c.execs
          /\ Ended(IF c.error = "" THEN "committed" ELSE "commitFailed", c.error)
  /\ UNCHANGED <<options, given, warned, collected, source, response, parsed, repo0, requests,
                 extracted, candidates, selected, cliVars>>

\* The process is interrupted while it awaits the backend or the user.
Interrupt ==
  /\ pc \in {"await1", "await2", "select", "confirm"}
  /\ Ended("interrupted", "")
  /\ UNCHANGED <<repo, options, given, warned, collected, source, response, parsed, repo0,
                 requests, extracted, candidates, selected, commitExecs, cliVars>>

Next ==
  \/ Generate
  \/ BackendFails
  \/ FirstResponse
  \/ RetryResponse
  \/ SelectMessage
  \/ SelectCancel
  \/ KeepMessage
  \/ EditMessage
  \/ Commit
  \/ Interrupt

Spec == Init /\ [][Next]_vars

RanGitCommit == \E n \in 1..Len(commitExecs) : commitExecs[n].cmd = "commit"

\* C1: when nothing is staged, commitChanges does not run git commit,
\* whatever the title and the body of the message: the call fails and the
\* repository is as it was.
C1_NoCommitWhenNothingStaged ==
  (commitExecs # <<>> /\ repo0.staged = <<>>) =>
    /\ ~RanGitCommit
    /\ outcome = "commitFailed" /\ error # ""
    /\ repo = repo0

\* commitChanges was called with a message of the backend and with an
\* edited one, with nothing staged.
C1_Witness ==
  /\ commitExecs # <<>> /\ repo0.staged = <<>>
  /\ selected # <<>> /\ selected[1].title = <<"b", BSL, QUOTE>>
  /\ selected[1].body = <<"a">>

\* C2: generateCommitMessages makes its second request exactly when the
\* messages parsed from the first response are none, with the diff of the
\* first request, which is not collected again; what is parsed from the
\* second response is returned, empty or not; there are at most two requests.
C2_RetryIffFirstEmpty ==
  [][ /\ Len(requests') <= 2
      /\ Len(extracted') <= Len(requests')
      /\ (extracted' = <<>>) => Len(requests') <= 1
      /\ (extracted' # <<>>) => (Len(requests') = 2 <=> extracted'[1] = <<>>)
      /\ (Len(requests') = 2) => requests'[2] = requests'[1]
      /\ (requests' # <<>>) => requests'[1] = collected'.diff
      /\ IF extracted' # <<>> /\ Len(extracted') = Len(requests')
         THEN candidates' = extracted'[Len(extracted')] /\ pc' \notin {"await1", "await2"}
         ELSE candidates' = <<>> /\ pc' \notin {"select", "confirm", "commit"}
      /\ collected.done => collected' = collected ]_vars

\* Both responses held no message, and the run went on to the selection.
C2_Witness ==
  /\ Len(requests) = 2 /\ Len(extracted) = 2
  /\ extracted[1] = <<>> /\ extracted[2] = <<>>
  /\ collected.diff # <<>>
  /\ pc = "select"

\* C3: in a run that ends otherwise than by a commit made (the diff is not
\* collected, the generation fails, no message is there to select, the user
\* cancels, nothing is staged, git commit fails, the run is interrupted) the
\* repository is as it was when the run began.
C3_RepoAsAtStartUnlessCommitted ==
  (outcome \notin {"", "committed"}) => repo = repo0

\* C6: with changes staged, what commitChanges reports when git commit
\* itself fails differs from what it reports when nothing is staged.
C6_CommitFailureDistinguishable ==
  (outcome = "commitFailed" /\ RanGitCommit /\ repo0.staged # <<>>) =>
    error # CommitChanges([repo0 EXCEPT !.staged = <<>>], selected[1], FALSE, TRUE).error
\* The command git commit that commitChanges ran: its message as written
\* into the command line.
CommitArg == commitExecs[Len(commitExecs)].arg

\* The log text of the specification: the title alone for an empty body.
LogTextBySpec(message) ==
  IF message.body = <<>> THEN message.title
  ELSE message.title \o <<NL, NL>> \o message.body

\* C15: the log text handed to git commit is the title, a blank line and the
\* body when the body is not empty, and the title alone, with no line break
\* after it, when the body is empty.
C15_LogTextOmitsEmptyBody ==
  RanGitCommit => CommitArg = EscapeQuotes(LogTextBySpec(selected[1]))

\* C16: the escaped text of executeGitCommit, put between double quotes and
\* read back as a shell reads a double-quoted string, is the composed log
\* text: the string is not ended early and every double quote comes back
\* once, also a double quote that follows a backslash.
C16_EscapingRoundTrip ==
  RanGitCommit =>
    LET sh == ShellGitCommit(CommitArg)
    IN /\ sh.ran /\ ~sh.failedAfter
       /\ sh.args = <<FullMessage(selected[1])>>
\* C17: when git fails to list the staged paths or to give the diff of a
\* path, getGitDiff does not make the failed call again,
\* generateCommitMessages fails with that failure, no generation request is
\* made and no diff text read before the failure is used.
C17_CollectionFailureEndsRun ==
  (collected.done /\ ~collected.ok) =>
    /\ Occurrences(collected.execs, collected.execs[Len(collected.execs)]) = 1
    /\ outcome = "collectFailed" /\ error = GetGitDiffError
    /\ requests = <<>> /\ collected.diff = <<>>
    /\ candidates = <<>> /\ commitExecs = <<>> /\ repo = repo0

\* The diff of the second path failed after the diff of the first was read.
C17_Witness ==
  /\ collected.done /\ ~collected.ok
  /\ Len(collected.execs) = 3
  /\ collected.execs[2].cmd = "diff" /\ collected.execs[3].cmd = "diff"
  /\ outcome = "collectFailed"

\* A request was sent and the run is over with no response parsed for it,
\* and not by an interrupt: the backend call failed.
BackendCallFailed ==
  pc = "done" /\ outcome # "interrupted" /\ Len(requests) > Len(extracted)

\* C18: a failure of the backend call, on the first request or on the
\* second, makes generateCommitMessages fail with that failure: no
\* candidate is returned, no request follows the failed one and the run
\* makes no commit.
C18_GenerationFailureEndsRun ==
  BackendCallFailed =>
    /\ outcome = "generationFailed" /\ error = CallClaudeAPIError
    /\ Len(requests) = Len(extracted) + 1
    /\ candidates = <<>> /\ selected = <<>>
    /\ commitExecs = <<>> /\ repo = repo0

\* The second request failed.
C18_Witness ==
  /\ BackendCallFailed
  /\ Len(requests) = 2 /\ extracted = <<<<>>>>
  /\ repo.staged # <<>>

\* C21: when no changes are staged, generateCommitMessages fails with
\* "Failed to get Git diff" and no generation request is sent.
C21_NothingStagedRejects ==
  (repo0.staged = <<>> /\ collected.done) =>
    /\ outcome = "collectFailed" /\ error = GetGitDiffError
    /\ requests = <<>>

\* The git commit commands among a sequence of commands.
CommitsIn(execs) == { n \in 1..Len(execs) : execs[n].cmd = "commit" }

\* C23: in every run commitChanges is called at most once, with the message
\* the user selected among the candidates (as it is, or as the user edited
\* it); it runs git commit at most once, and the run ends with that call.
C23_CommitsSelectedOnce ==
  [][ /\ (selected' # selected) =>
           \/ pc = "select" /\ \E n \in 1..Len(candidates) : selected' = <<candidates[n]>>
           \/ pc = "confirm" /\ selected # <<>> /\ Len(selected') = 1
      /\ (commitExecs' # commitExecs) =>
           /\ commitExecs = <<>> /\ pc = "commit" /\ pc' = "done"
           /\ Len(selected) = 1 /\ selected' = selected
           /\ Cardinality(CommitsIn(commitExecs')) <= 1
           /\ \A n \in CommitsIn(commitExecs') :
                commitExecs'[n].arg = EscapeQuotes(FullMessage(selected[1]))
      /\ (repo' # repo) => (commitExecs' # commitExecs)
      /\ (commitExecs # <<>>) => (pc = "done" /\ pc' = "done") ]_vars

\* The user selected the second of two candidates and git commit ran for it.
C23_Witness ==
  /\ pc = "done" /\ RanGitCommit
  /\ Len(candidates) = 2 /\ selected = <<candidates[2]>>
  /\ CommitArg = EscapeQuotes(FullMessage(candidates[2]))

\* C27: commitChanges is called only after the user selected one of the
\* candidates: with no candidate, also after the retry, no message is
\* selected, and after Cancel commitChanges is not called, no git command of
\* it runs and the repository is as it was.
C27_NoCommitWithoutSelection ==
  /\ (commitExecs # <<>> \/ pc \in {"confirm", "commit"}) =>
       (Len(selected) = 1 /\ candidates # <<>>)
  /\ (candidates = <<>>) => (selected = <<>> /\ commitExecs = <<>>)
  /\ (outcome = "cancelled") =>
       (selected = <<>> /\ commitExecs = <<>> /\ repo = repo0)

\* Both responses held no candidate and the user picked Cancel, with
\* changes staged.
C27_Witness ==
  /\ outcome = "cancelled"
  /\ Len(requests) = 2 /\ candidates = <<>>
  /\ repo.staged # <<>>

(***************************************************************************)
(* SpecCli: one invocation of the program: the action of cli.ts on every   *)
(* configuration store saveConfig can leave and every set of flags, and,   *)
(* when it constructs a generator, the run of Spec.                        *)
(***************************************************************************)
Configs ==
  [apiKey : Optional({"k"}), language : Optional({"ja"}),
   provider : Optional({"anthropic"})]

NumberTexts == { <<"3">>, <<"a">>, <<"-", "1">>, <<SP, "2", "0", "a">> }

Flags ==
  [key : Optional({"", "k"}), language : Optional({"", "ko", "KO"}),
   provider : Optional({"", "openai", "gpt"}), showConfig : BOOLEAN,
   number : NumberTexts]

CliRepos == [staged : { <<[path |-> <<"a", ".ts">>, bytes |-> 1]>> }, log : {<<>>}]

InitCli ==
  /\ pc = "cli"
  /\ config \in Configs
  /\ flags \in Flags
  /\ reported = <<>>
  /\ repo \in CliRepos
  /\ options = DefaultOptions
  /\ collected = NotCollected
  /\ ParseIdle
  /\ RunIdle
  /\ ConstructorIdle

\* if (options.key || options.language || options.provider) saveConfig, return
CliSaveConfig ==
  /\ pc = "cli"
  /\ CarriesConfigFlag(flags)
  /\ config' = SaveConfig(config, flags).config
  /\ reported' = SaveConfig(config, flags).errors
  /\ Ended("configSaved", "")
  /\ UNCHANGED <<repo, options, given, warned, collected, source, response, parsed,
                 repo0, requests, extracted, candidates, selected, commitExecs, flags>>

\* if (options.showConfig) showConfig, return
CliShowConfig ==
  /\ pc = "cli"
  /\ ~CarriesConfigFlag(flags)
  /\ flags.showConfig
  /\ Ended("configShown", "")
  /\ UNCHANGED <<repo, options, given, warned, collected, source, response, parsed,
                 repo0, requests, extracted, candidates, selected, commitExecs, cliVars>>

\* getApiKey() returns null: "API key not set.", return
CliNoApiKey ==
  /\ pc = "cli"
  /\ ~CarriesConfigFlag(flags)
  /\ ~flags.showConfig
  /\ GetApiKey(config) = <<>>
  /\ reported' = <<CliError("apiKey", "")>>
  /\ Ended("noApiKey", "")
  /\ UNCHANGED <<repo, options, given, warned, collected, source, response, parsed,
                 repo0, requests, extracted, candidates, selected, commitExecs,
                 config, flags>>

\* new GitCommitMessageGenerator(apiKey, {numberOfSuggestions, language})
CliConstruct ==
  /\ pc = "cli"
  /\ ~CarriesConfigFlag(flags)
  /\ ~flags.showConfig
  /\ GetApiKey(config) # <<>>
  /\ given' = [NoOptions EXCEPT !.numberOfSuggestions = <<ParseInt(flags.number)>>,
                                !.language = <<GetLanguage(config)>>]
  /\ options' = InitializeOptions(given').options
  /\ warned' = InitializeOptions(given').warns
  /\ pc' = "start"
  /\ UNCHANGED <<repo, collected, source, response, parsed, runVars, cliVars>>

NextCli ==
  \/ CliSaveConfig
  \/ CliShowConfig
  \/ CliNoApiKey
  \/ CliConstruct
  \/ Next

SpecCli == InitCli /\ [][NextCli]_vars

\* In SpecCli the constructor is called with a language, so that given tells
\* whether a generator was constructed.
GeneratorConstructed == given # NoOptions

\* Some git command ran.
RanGit == collected.execs # <<>> \/ commitExecs # <<>>

\* C28: an invocation that carries --key, --language or --provider, that
\* asks for --show-config, or that finds no API key stored constructs no
\* generator, makes no generation request and runs no git command.
C28_ConfigInvocationDoesNotRun ==
  ( \/ flags.key # <<>> \/ flags.language # <<>> \/ flags.provider # <<>>
    \/ flags.showConfig
    \/ config.apiKey = <<>> )
  => (~GeneratorConstructed /\ requests = <<>> /\ ~RanGit)

\* A language or a provider that saveConfig is given and does not support.
UnsupportedGiven(x, supported) == x # <<>> /\ x[1] \notin supported

\* C29: saveConfig given a language or a provider it does not support
\* leaves the stored one as it was and reports an error about it, and
\* stores a valid key, language or provider given in the same call; the
\* stored language is absent or a member of the supported set.
C29_SaveConfigKeepsStoreValid ==
  [][ /\ (config' # config \/ reported' # reported) =>
           (pc = "cli" /\ pc' = "done")
      /\ (pc = "cli" /\ outcome' = "configSaved") =>
           /\ IF UnsupportedGiven(flags.language, SupportedBySpec)
              THEN /\ config'.language = config.language
                   /\ Occurrences(reported', CliError("language", flags.language[1])) = 1
              ELSE /\ flags.language # <<>> => config'.language = flags.language
                   /\ \A n \in 1..Len(reported') : reported'[n].about # "language"
           /\ IF UnsupportedGiven(flags.provider, SupportedProviders)
              THEN /\ config'.provider = config.provider
                   /\ Occurrences(reported', CliError("provider", flags.provider[1])) = 1
              ELSE /\ flags.provider # <<>> => config'.provider = flags.provider
                   /\ \A n \in 1..Len(reported') : reported'[n].about # "provider"
           /\ Truthy(flags.key) => config'.apiKey = flags.key
      /\ (config'.language = <<>> \/ config'.language[1] \in SupportedBySpec) ]_vars

====
